---- MODULE Spec2Model ----
(***************************************************************************)
(* Model of tzlocal/unix.py: detection of the local time zone on Unix.     *)
(*                                                                         *)
(* Strings are sequences of one-character strings, so that the string      *)
(* operations of the source (split, replace, find, slicing, regular        *)
(* expression matching) are computed character by character.               *)
(***************************************************************************)
EXTENDS Integers, Sequences, FiniteSets, TLC

VARIABLES
    environ,      \* os.environ restricted to TZ: None when unset, else Str(value)
    absfiles,     \* absolute paths (outside the search root) that exist, TZif files
    fs,           \* the tree under the search root: relative path -> file state
    getprop,      \* what `getprop persist.sys.timezone` does when invoked
    offsetState,  \* what utils.assert_tz_offset finds: "match", "warn" or "fail"
    _cache_tz,    \* the module global _cache_tz
    called,       \* the last call of _get_localzone / get_localzone / reload_localzone
    runs,         \* number of executions of _get_localzone by the two cached calls
    finished,     \* the objects those executions returned
    last,         \* the outcome of the most recent of those executions
    failed,       \* whether one of those executions raised
    pc,           \* per thread: position inside get_localzone / reload_localzone
    tmp,          \* per thread: the value _get_localzone() returned, not yet stored
    ret           \* per thread: outcome of the thread's last finished call

vars == <<environ, absfiles, fs, getprop, offsetState, _cache_tz, called, runs,
          finished, last, failed, pc, tmp, ret>>

(***************************************************************************)
(* Bounds of the model.                                                    *)
(***************************************************************************)
MaxRuns == 3
NumThreads == 2

(***************************************************************************)
(* String constants.                                                       *)
(***************************************************************************)
S_UTC == <<"U","T","C">>
S_EtcUTC == <<"E","t","c","/","U","T","C">>
S_GMT == <<"G","M","T">>
S_GMT0 == <<"G","M","T","0">>
S_GMTp0 == <<"G","M","T","+","0">>
S_GMTm0 == <<"G","M","T","-","0">>
S_Japan == <<"J","a","p","a","n">>
S_Cuba == <<"C","u","b","a">>
S_AsiaDili == <<"A","s","i","a","/","D","i","l","i">>
S_Mars == <<"M","a","r","s">>
S_local == <<"l","o","c","a","l">>
S_ColonEtcUTC == <<":">> \o S_EtcUTC
S_ZONE == <<"Z","O","N","E">>
S_TIMEZONE == <<"T","I","M","E">> \o S_ZONE
NL == <<"\n">>
SP == <<" ">>
QUOTE == <<"\"">>

\* The zone names the zone database knows (a sample of the IANA database).
ZoneDB == {S_UTC, S_EtcUTC, S_GMT, S_GMT0, S_Japan, S_Cuba, S_AsiaDili}

\* Relative paths under the search root.
P_getprop == <<"s","y","s","t","e","m","/","b","i","n","/","g","e","t","p","r","o","p">>
P_etc_timezone == <<"e","t","c","/","t","i","m","e","z","o","n","e">>
P_var_db_zoneinfo == <<"v","a","r","/","d","b","/","z","o","n","e","i","n","f","o">>
P_sysconfig_clock == <<"e","t","c","/","s","y","s","c","o","n","f","i","g","/","c","l","o","c","k">>
P_confd_clock == <<"e","t","c","/","c","o","n","f",".","d","/","c","l","o","c","k">>
P_etc_localtime == <<"e","t","c","/","l","o","c","a","l","t","i","m","e">>
P_usr_localtime == <<"u","s","r","/","l","o","c","a","l","/">> \o P_etc_localtime

\* Absolute paths.
R_Slash == <<"/">>
R_Test == <<"/","t">>
P_zoneinfo == <<"/","u","s","r","/","s","h","a","r","e","/","z","o","n","e","i","n","f","o","/">>
P_abs_tzfile == <<"/","t","z">>
P_abs_data == <<"/","v","a","r","/","t","z","d","a","t","a">>

(***************************************************************************)
(* Python string operations.                                               *)
(***************************************************************************)
StartsWith(s, p) == Len(s) >= Len(p) /\ SubSeq(s, 1, Len(p)) = p

\* s[n:]
From(s, n) == SubSeq(s, n + 1, Len(s))

\* s[:n]
UpTo(s, n) == SubSeq(s, 1, n)

\* s.find(c): the 0-based index of the first occurrence of character c, or -1
Find(s, c) ==
    IF \E i \in 1..Len(s) : s[i] = c
    THEN (CHOOSE i \in 1..Len(s) : s[i] = c /\ \A j \in 1..(i - 1) : s[j] # c) - 1
    ELSE -1

\* c in s
Contains(s, c) == Find(s, c) # -1

\* s.split(c, 1)[0]
SplitHead(s, c) == UpTo(s, Find(s, c))

\* s.replace(old, new), old not empty: non-overlapping occurrences, left to right
RECURSIVE Replace(_, _, _)
Replace(s, old, new) ==
    IF s = <<>> THEN <<>>
    ELSE IF StartsWith(s, old)
         THEN new \o Replace(From(s, Len(old)), old, new)
         ELSE <<Head(s)>> \o Replace(Tail(s), old, new)

IsSpace(c) == c \in {" ", "\n", "\t"}

\* s.lstrip()
RECURSIVE LStrip(_)
LStrip(s) == IF s # <<>> /\ IsSpace(Head(s)) THEN LStrip(Tail(s)) ELSE s

\* s.rstrip()
RECURSIVE RStrip(_)
RStrip(s) ==
    IF s # <<>> /\ IsSpace(s[Len(s)]) THEN RStrip(UpTo(s, Len(s) - 1)) ELSE s

\* s.strip()
Strip(s) == RStrip(LStrip(s))

\* s.splitlines(): the lines without their line ends
RECURSIVE SplitLines(_)
SplitLines(s) ==
    IF s = <<>> THEN <<>>
    ELSE IF Contains(s, "\n")
         THEN <<UpTo(s, Find(s, "\n"))>> \o SplitLines(From(s, Find(s, "\n") + 1))
         ELSE <<s>>

\* file.readlines(): the lines with their line ends
RECURSIVE ReadLines(_)
ReadLines(s) ==
    IF s = <<>> THEN <<>>
    ELSE IF Contains(s, "\n")
         THEN <<UpTo(s, Find(s, "\n") + 1)>> \o ReadLines(From(s, Find(s, "\n") + 1))
         ELSE <<s>>

\* os.path.isabs(p)
IsAbs(p) == StartsWith(p, <<"/">>)

\* os.path.join(root, rel), rel relative
Join(root, rel) ==
    IF root # <<>> /\ root[Len(root)] = "/" THEN root \o rel ELSE root \o <<"/">> \o rel

(***************************************************************************)
(* Values: None, time zone objects, exceptions.                            *)
(***************************************************************************)
None == [type |-> "None"]

IsExc(x) == "exc" \in DOMAIN x

\* `if x:` for None and time zone objects
Truthy(x) == x # None

\* zoneinfo.ZoneInfo(key): the zone named key, ZoneInfoNotFoundError for a name
\* the database does not hold, ValueError for a key that cannot be a name
ZoneInfo(key) ==
    IF key = <<>> \/ StartsWith(key, <<"/">>)
    THEN [exc |-> "ValueError", why |-> "not a normalized relative path", arg |-> key]
    ELSE IF key \in ZoneDB
         THEN [type |-> "ZoneInfo", key |-> key, made |-> "key"]
         ELSE [exc |-> "ZoneInfoNotFoundError", why |-> "no such zone", arg |-> key]

\* zoneinfo.ZoneInfo.from_file(f, key="local")
ZoneInfo_from_file == [type |-> "ZoneInfo", key |-> S_local, made |-> "from_file"]

\* datetime.timezone.utc
timezone_utc == [type |-> "timezone.utc"]

(***************************************************************************)
(* The file system and the environment.                                    *)
(***************************************************************************)
Absent == [kind |-> "absent"]
Text(data) == [kind |-> "text", data |-> data]
Binary == [kind |-> "binary"]
Symlink(real, live) == [kind |-> "symlink", real |-> real, live |-> live]

Str(s) == [type |-> "str", val |-> s]

\* os.environ.get(name)
environ_get(name) == environ[name]

\* os.path.exists(os.path.join(_root, rel)): a dangling symlink does not exist
path_exists(rel) ==
    /\ fs[rel].kind # "absent"
    /\ fs[rel].kind = "symlink" => fs[rel].live

\* os.path.islink(os.path.join(_root, rel))
path_islink(rel) == fs[rel].kind = "symlink"

\* os.path.realpath(os.path.join(_root, rel)) of a symlink
path_realpath(rel) == fs[rel].real

\* open(os.path.join(_root, rel), "rt") and read(): the text, or the exception
open_rt(rel) ==
    CASE fs[rel].kind = "text" -> [data |-> fs[rel].data]
      [] fs[rel].kind = "binary" -> [exc |-> "UnicodeDecodeError"]
      [] fs[rel].kind = "symlink" /\ fs[rel].live -> [exc |-> "UnicodeDecodeError"]
      [] OTHER -> [exc |-> "IOError"]

(***************************************************************************)
(* found_configs: a dict, which keeps the order in which keys were first   *)
(* inserted. A sequence of <<key, value>> pairs.                           *)
(***************************************************************************)
DictHas(d, k) == \E i \in 1..Len(d) : d[i][1] = k

\* d[k] = v
DictSet(d, k, v) ==
    IF DictHas(d, k)
    THEN [i \in 1..Len(d) |-> IF d[i][1] = k THEN <<k, v>> ELSE d[i]]
    ELSE Append(d, <<k, v>>)

\* list(d.values())
DictValues(d) == [i \in 1..Len(d) |-> d[i][2]]

(***************************************************************************)
(* _tz_from_env and _try_tz_from_env.                                      *)
(***************************************************************************)
_tz_from_env(tzenv) ==
    LET name == IF tzenv[1] = ":" THEN From(tzenv, 1) ELSE tzenv
    IN  IF IsAbs(name) /\ name \in absfiles
        THEN ZoneInfo_from_file
        ELSE IF IsExc(ZoneInfo(name)) /\ ZoneInfo(name).exc = "ZoneInfoNotFoundError"
             THEN [exc |-> "ZoneInfoNotFoundError",
                   why |-> "tzlocal() does not support non-zoneinfo timezones",
                   arg |-> name]
             ELSE ZoneInfo(name)

\* The except clause of _try_tz_from_env: what the call yields when
\* _tz_from_env(tzenv) raised e.
TryEnvExcept(e) ==
    IF e.exc = "ZoneInfoNotFoundError" THEN None ELSE e

_try_tz_from_env ==
    LET tzenv == environ_get("TZ")
    IN  IF tzenv # None /\ tzenv.val # <<>>
        THEN IF IsExc(_tz_from_env(tzenv.val))
             THEN TryEnvExcept(_tz_from_env(tzenv.val))
             ELSE _tz_from_env(tzenv.val)
        ELSE None

(***************************************************************************)
(* The plain name files etc/timezone and var/db/zoneinfo.                  *)
(***************************************************************************)
\* One line of the file: the name it holds, "" when it holds none.
PlainLineName(line) ==
    LET a == IF Contains(line, " ") THEN SplitHead(line, " ") ELSE line
        b == IF Contains(a, "#") THEN SplitHead(a, "#") ELSE a
    IN  b

RECURSIVE PlainLines(_, _, _)
PlainLines(found, tzpath, lines) ==
    IF lines = <<>> THEN found
    ELSE LET etctz == PlainLineName(Head(lines))
         IN  PlainLines(IF etctz = <<>>
                        THEN found
                        ELSE DictSet(found, tzpath, Replace(etctz, SP, <<"_">>)),
                        tzpath, Tail(lines))

ScanPlainFile(found, root, configfile) ==
    LET f == open_rt(configfile)
    IN  IF IsExc(f) THEN found
        ELSE IF Strip(f.data) = <<>> THEN found
        ELSE PlainLines(found, Join(root, configfile), SplitLines(f.data))

(***************************************************************************)
(* The clock files etc/sysconfig/clock and etc/conf.d/clock.               *)
(***************************************************************************)
\* re.compile(r'\s*WORD\s*=\s*"').match(line): match.end(), or -1 for no match
ReMatchEnd(word, line) ==
    LET a == LStrip(line)
        b == LStrip(From(a, Len(word)))
        c == LStrip(From(b, 1))
    IN  IF StartsWith(a, word) /\ StartsWith(b, <<"=">>) /\ StartsWith(c, QUOTE)
        THEN Len(line) - Len(c) + 1
        ELSE -1

\* The scan state is [found |-> the dict, exc |-> None or the exception raised].
RECURSIVE ClockLines(_, _, _)
ClockLines(st, tzpath, lines) ==
    IF lines = <<>> \/ st.exc # None THEN st
    ELSE LET line == Head(lines)
             zone == ReMatchEnd(S_ZONE, line)
             end == IF zone = -1 THEN ReMatchEnd(S_TIMEZONE, line) ELSE zone
             rest == From(line, end)
         IN  IF end = -1
             THEN ClockLines(st, tzpath, Tail(lines))
             ELSE IF Find(rest, "\"") = -1
                  THEN [st EXCEPT !.exc = [exc |-> "AttributeError",
                                           why |-> "end_re.search(line) is None"]]
                  ELSE ClockLines(
                         [st EXCEPT !.found =
                            DictSet(@, tzpath,
                                    Replace(UpTo(rest, Find(rest, "\"")), SP, <<"_">>))],
                         tzpath, Tail(lines))

ScanClockFile(st, root, filename) ==
    LET f == open_rt(filename)
    IN  IF st.exc # None \/ IsExc(f) THEN st
        ELSE ClockLines(st, Join(root, filename), ReadLines(f.data))

(***************************************************************************)
(* The symlink etc/localtime.                                              *)
(***************************************************************************)
\* What the loop does with found_configs when ZoneInfo(etctz) succeeded.
SymlinkRecord(found, tzpath, etctz) ==
    DictSet(found, tzpath, Replace(etctz, SP, <<"_">>))

RECURSIVE SymlinkLoop(_, _, _, _)
SymlinkLoop(found, tzpath, etctz, start) ==
    IF start = 0 THEN found
    ELSE LET suffix == From(etctz, start)
         IN  SymlinkLoop(IF IsExc(ZoneInfo(suffix))
                         THEN found
                         ELSE SymlinkRecord(found, tzpath, suffix),
                         tzpath, suffix, Find(suffix, "/") + 1)

\* ScanSymlink, were the symlink examined only when no file gave a candidate
ScanSymlinkIfNothingFound(found) ==
    IF found = <<>> /\ path_exists(P_etc_localtime) /\ path_islink(P_etc_localtime)
    THEN LET real == path_realpath(P_etc_localtime)
         IN  SymlinkLoop(found, real, real, Find(real, "/") + 1)
    ELSE found

ScanSymlink(found) ==
    IF path_exists(P_etc_localtime) /\ path_islink(P_etc_localtime)
    THEN LET real == path_realpath(P_etc_localtime)
         IN  SymlinkLoop(found, real, real, Find(real, "/") + 1)
    ELSE found

(***************************************************************************)
(* Outcomes of a call: a returned value with the warnings emitted on the   *)
(* way, or the exception raised.                                           *)
(***************************************************************************)
Return(v, w) == [ret |-> v, warnings |-> w]

(***************************************************************************)
(* Reconciliation of found_configs.                                        *)
(***************************************************************************)
\* The name compared in place of tzname
Normalize(tzname) ==
    LET a == Replace(tzname, <<"E","t","c","/">>, <<>>)
        b == Replace(a, S_UTC, S_GMT)
    IN  IF b \in {S_GMT0, S_GMTp0, S_GMTm0} THEN S_GMT ELSE b

unique_tzs(found) == {Normalize(found[i][2]) : i \in 1..Len(found)}

\* The exception raised for conflicting configurations: one line per item
ConflictError(found) ==
    [exc |-> "ZoneInfoNotFoundError",
     why |-> "Multiple conflicting time zone configurations found",
     lines |-> [i \in 1..Len(found) |-> found[i][1] \o <<":", " ">> \o found[i][2]]]

\* utils.assert_tz_offset(tz): the warnings it emits, or the exception
assert_tz_offset(tz) ==
    CASE offsetState = "match" -> [warnings |-> <<>>]
      [] offsetState = "warn" -> [warnings |-> <<"offset mismatch">>]
      [] OTHER -> [exc |-> "ValueError", why |-> "offset mismatch"]

\* ChosenName, were the folded name the one looked up
ChosenNameFolded(found) == Normalize(DictValues(found)[1])

\* The name passed to ZoneInfo once the configurations agree
ChosenName(found) == DictValues(found)[1]

\* UseFoundConfigs, were two configurations not yet "multiple"
UseFoundConfigsOverTwo(found, root) ==
    IF Len(found) > 2 /\ Cardinality(unique_tzs(found)) # 1
    THEN ConflictError(found)
    ELSE LET tz == ZoneInfo(ChosenName(found))
         IN  IF IsExc(tz) THEN tz
             ELSE IF root = R_Slash
                  THEN IF IsExc(assert_tz_offset(tz))
                       THEN assert_tz_offset(tz)
                       ELSE Return(tz, assert_tz_offset(tz).warnings)
                  ELSE Return(tz, <<>>)

\* Lines 152-183: some configuration was found
UseFoundConfigs(found, root) ==
    IF Len(found) > 1 /\ Cardinality(unique_tzs(found)) # 1
    THEN ConflictError(found)
    ELSE LET tz == ZoneInfo(ChosenName(found))
         IN  IF IsExc(tz) THEN tz
             ELSE IF root = R_Slash
                  THEN IF IsExc(assert_tz_offset(tz))
                       THEN assert_tz_offset(tz)
                       ELSE Return(tz, assert_tz_offset(tz).warnings)
                  ELSE Return(tz, <<>>)

\* Lines 185-195: no configuration was found
UseLocaltime ==
    IF path_exists(P_etc_localtime) \/ path_exists(P_usr_localtime)
    THEN Return(ZoneInfo_from_file, <<>>)
    ELSE Return(timezone_utc,
                <<"Can not find any timezone configuration, defaulting to UTC.">>)

\* Lines 62-71: Termux on Android
AndroidProbe ==
    IF getprop.kind = "output"
    THEN LET tz == ZoneInfo(Strip(getprop.out))
         IN  IF IsExc(tz) THEN tz ELSE Return(tz, <<>>)
    ELSE [exc |-> "CalledProcessError", why |-> "getprop failed"]

\* Lines 77-135: found_configs after the four configuration files
ScanFiles(root) ==
    LET a == ScanPlainFile(<<>>, root, P_etc_timezone)
        b == ScanPlainFile(a, root, P_var_db_zoneinfo)
        c == ScanClockFile([found |-> b, exc |-> None], root, P_sysconfig_clock)
    IN  ScanClockFile(c, root, P_confd_clock)

\* Lines 137-150: found_configs after the symlink as well
ScanAll(root) ==
    LET st == ScanFiles(root)
    IN  IF st.exc # None THEN st ELSE [st EXCEPT !.found = ScanSymlink(@)]

\* _get_localzone, were TZ consulted after the platform probe and the files
_get_localzone_env_last(_root) ==
    LET tzenv == _try_tz_from_env
        st == ScanAll(_root)
    IN  IF path_exists(P_getprop) THEN AndroidProbe
        ELSE IF st.exc # None THEN st.exc
        ELSE IF Len(st.found) > 0 THEN UseFoundConfigs(st.found, _root)
        ELSE IF IsExc(tzenv) THEN tzenv
        ELSE IF Truthy(tzenv) THEN Return(tzenv, <<>>)
        ELSE UseLocaltime

_get_localzone(_root) ==
    LET tzenv == _try_tz_from_env
        st == ScanAll(_root)
    IN  IF IsExc(tzenv) THEN tzenv
        ELSE IF Truthy(tzenv) THEN Return(tzenv, <<>>)
        ELSE IF path_exists(P_getprop) THEN AndroidProbe
        ELSE IF st.exc # None THEN st.exc
        ELSE IF Len(st.found) > 0 THEN UseFoundConfigs(st.found, _root)
        ELSE UseLocaltime

(***************************************************************************)
(* The states of the environment the model explores.                       *)
(***************************************************************************)
Roots == {R_Slash, R_Test}

FsOf(g, t, z, s, c, l, u) ==
    (P_getprop :> g) @@ (P_etc_timezone :> t) @@ (P_var_db_zoneinfo :> z)
    @@ (P_sysconfig_clock :> s) @@ (P_confd_clock :> c)
    @@ (P_etc_localtime :> l) @@ (P_usr_localtime :> u)

D_TwoLines == S_Cuba \o <<" ","#","c","\n">> \o S_Japan \o NL
D_ZoneDili == S_ZONE \o <<"=">> \o QUOTE \o S_AsiaDili \o QUOTE \o NL
D_TimezoneUTC ==
    <<"#"," ","c","\n"," "," ">> \o S_TIMEZONE \o <<" ","="," ">> \o QUOTE
    \o S_EtcUTC \o QUOTE \o <<" ","#","t","\n">>
D_Unterminated == S_ZONE \o <<"=">> \o QUOTE \o <<"J","a","p","\n">>
D_TimezoneGMT0 == S_TIMEZONE \o <<"=">> \o QUOTE \o S_GMT0 \o QUOTE

TimezoneFiles ==
    {Absent, Binary, Text(NL), Text(S_AsiaDili \o NL), Text(S_EtcUTC \o NL),
     Text(S_Mars \o NL), Text(D_TwoLines)}
ZoneinfoFiles == {Absent, Text(S_GMT \o NL), Text(S_AsiaDili), Text(S_Mars \o NL)}
SysclockFiles ==
    {Absent, Binary, Text(D_ZoneDili), Text(D_TimezoneUTC), Text(D_Unterminated)}
ConfdFiles == {Absent, Text(D_TimezoneGMT0)}
LocaltimeFiles ==
    {Absent, Binary, Symlink(P_zoneinfo \o S_EtcUTC, TRUE),
     Symlink(P_zoneinfo \o S_AsiaDili, TRUE), Symlink(P_abs_data, TRUE),
     Symlink(P_zoneinfo \o S_Japan, FALSE)}
EnvValues ==
    {None, Str(<<>>), Str(S_AsiaDili), Str(S_ColonEtcUTC), Str(S_Mars),
     Str(P_abs_tzfile), Str(<<":">> \o P_abs_tzfile)}
GetpropResults ==
    {[kind |-> "output", out |-> S_Japan \o NL], [kind |-> "output", out |-> S_Mars \o NL],
     [kind |-> "fail"]}

NoCall == [op |-> "none"]

\* The part of the state the resolver does not use.
IdleCache ==
    /\ _cache_tz = None
    /\ called = NoCall
    /\ runs = 0
    /\ finished = {}
    /\ last = None
    /\ failed = FALSE
    /\ pc = <<>>
    /\ tmp = <<>>
    /\ ret = <<>>

\* Every state of the configuration files and the symlink, TZ unset or empty.
InitScan ==
    /\ environ \in {[TZ |-> v] : v \in {None, Str(<<>>)}}
    /\ absfiles = {}
    /\ getprop = [kind |-> "fail"]
    /\ offsetState \in {"match", "warn", "fail"}
    /\ \E t \in TimezoneFiles, z \in ZoneinfoFiles, s \in SysclockFiles,
          c \in ConfdFiles, l \in LocaltimeFiles, u \in {Absent, Binary} :
          fs = FsOf(Absent, t, z, s, c, l, u)

\* Every value of TZ and every state of the platform marker.
InitEnv ==
    /\ environ \in {[TZ |-> v] : v \in EnvValues}
    /\ absfiles \in {{}, {P_abs_tzfile}}
    /\ getprop \in GetpropResults
    /\ offsetState \in {"match", "fail"}
    /\ \E g \in {Absent, Binary},
          t \in {Absent, Text(S_Cuba \o NL), Text(S_Mars \o NL)},
          z \in {Absent, Text(S_GMT \o NL)},
          s \in {Absent, Text(D_ZoneDili)},
          l \in {Absent, Binary, Symlink(P_zoneinfo \o S_EtcUTC, TRUE)} :
          fs = FsOf(g, t, z, s, Absent, l, Absent)

Init == IdleCache /\ (InitScan \/ InitEnv)

World == <<environ, absfiles, fs, getprop, offsetState>>

\* A call _get_localzone(_root=root)
Resolve(root) ==
    /\ called' = [op |-> "_get_localzone", root |-> root, out |-> _get_localzone(root)]
    /\ UNCHANGED <<World, _cache_tz, runs, finished, last, failed, pc, tmp, ret>>

Next == \E root \in Roots : Resolve(root)

Spec == Init /\ [][Next]_vars

(***************************************************************************)
(* get_localzone and reload_localzone, called from one thread. A call is   *)
(* one step. `called` keeps what the call saw and what it gave.            *)
(***************************************************************************)
\* One execution of _get_localzone(): its outcome is last'
Execute ==
    /\ last' = _get_localzone(R_Slash)
    /\ runs' = runs + 1
    /\ failed' = (failed \/ IsExc(last'))
    /\ finished' = IF IsExc(last') THEN finished ELSE finished \cup {last'.ret}

NotExecuted == UNCHANGED <<runs, last, failed, finished>>

\* What a call saw, and the exception it raised or the value it returned
CallRecord(op, raised) ==
    [op |-> op, before |-> _cache_tz, runsBefore |-> runs,
     out |-> IF raised THEN last' ELSE [ret |-> _cache_tz']]

\* get_localzone, were the test of the cache missing
get_localzone_uncached ==
    /\ runs < MaxRuns
    /\ Execute
    /\ _cache_tz' = IF IsExc(last') THEN _cache_tz ELSE last'.ret
    /\ called' = CallRecord("get_localzone", IsExc(last'))
    /\ UNCHANGED <<World, pc, tmp, ret>>

get_localzone ==
    /\ IF _cache_tz = None
       THEN /\ runs < MaxRuns
            /\ Execute
            /\ _cache_tz' = IF IsExc(last') THEN _cache_tz ELSE last'.ret
            /\ called' = CallRecord("get_localzone", IsExc(last'))
       ELSE /\ NotExecuted
            /\ _cache_tz' = _cache_tz
            /\ called' = CallRecord("get_localzone", FALSE)
    /\ UNCHANGED <<World, pc, tmp, ret>>

\* reload_localzone, were the cache cleared before the new resolution
reload_localzone_clearing ==
    /\ runs < MaxRuns
    /\ Execute
    /\ _cache_tz' = IF IsExc(last') THEN None ELSE last'.ret
    /\ called' = CallRecord("reload_localzone", IsExc(last'))
    /\ UNCHANGED <<World, pc, tmp, ret>>

reload_localzone ==
    /\ runs < MaxRuns
    /\ Execute
    /\ _cache_tz' = IF IsExc(last') THEN _cache_tz ELSE last'.ret
    /\ called' = CallRecord("reload_localzone", IsExc(last'))
    /\ UNCHANGED <<World, pc, tmp, ret>>

\* The environment changes between calls: TZ is set or unset, a configuration
\* file is written or removed.
SetTZ(v) ==
    /\ environ["TZ"] # v
    /\ environ' = [environ EXCEPT !["TZ"] = v]
    /\ UNCHANGED <<absfiles, fs, getprop, offsetState, _cache_tz, called, runs,
                   finished, last, failed, pc, tmp, ret>>

WriteFile(rel, f) ==
    /\ fs[rel] # f
    /\ fs' = [fs EXCEPT ![rel] = f]
    /\ UNCHANGED <<environ, absfiles, getprop, offsetState, _cache_tz, called, runs,
                   finished, last, failed, pc, tmp, ret>>

CacheEnvValues == {None, Str(S_Japan), Str(S_Mars)}
CacheTimezoneFiles == {Absent, Text(S_Cuba \o NL)}
CacheZoneinfoFiles == {Absent, Text(S_AsiaDili \o NL)}

InitCache ==
    /\ IdleCache
    /\ environ \in {[TZ |-> v] : v \in CacheEnvValues}
    /\ absfiles = {}
    /\ getprop = [kind |-> "fail"]
    /\ offsetState \in {"match", "fail"}
    /\ \E t \in CacheTimezoneFiles, z \in CacheZoneinfoFiles :
          fs = FsOf(Absent, t, z, Absent, Absent, Absent, Absent)

NextCache ==
    \/ get_localzone
    \/ reload_localzone
    \/ \E v \in CacheEnvValues : SetTZ(v)
    \/ \E t \in CacheTimezoneFiles : WriteFile(P_etc_timezone, t)
    \/ \E z \in CacheZoneinfoFiles : WriteFile(P_var_db_zoneinfo, z)

SpecCache == InitCache /\ [][NextCache]_vars

(***************************************************************************)
(* get_localzone and reload_localzone, called from several threads with no *)
(* lock. A step is one access to the global _cache_tz, or one execution of *)
(* _get_localzone().                                                       *)
(***************************************************************************)
Threads == 1..NumThreads

NoOutcome == [op |-> "none"]

\* get_localzone line 201: the test `_cache_tz is None`
GetTest(t) ==
    /\ pc[t] = "idle"
    /\ pc' = [pc EXCEPT ![t] = IF _cache_tz = None THEN "get_call" ELSE "get_return"]
    /\ ret' = [ret EXCEPT ![t] = NoOutcome]
    /\ UNCHANGED <<World, _cache_tz, called, runs, finished, last, failed, tmp>>

\* lines 202 and 210: the call _get_localzone(), which raises or leaves a value
CallStep(t, at, to) ==
    /\ pc[t] = at
    /\ runs < MaxRuns
    /\ Execute
    /\ IF IsExc(last')
       THEN /\ pc' = [pc EXCEPT ![t] = "idle"]
            /\ ret' = [ret EXCEPT ![t] = last']
            /\ tmp' = tmp
       ELSE /\ pc' = [pc EXCEPT ![t] = to]
            /\ tmp' = [tmp EXCEPT ![t] = last'.ret]
            /\ ret' = ret
    /\ UNCHANGED <<World, _cache_tz, called>>

GetCall(t) == CallStep(t, "get_call", "get_store")

\* lines 202 and 210: the assignment to the global
StoreStep(t, at, to) ==
    /\ pc[t] = at
    /\ _cache_tz' = tmp[t]
    /\ tmp' = [tmp EXCEPT ![t] = None]
    /\ pc' = [pc EXCEPT ![t] = to]
    /\ UNCHANGED <<World, called, runs, finished, last, failed, ret>>

GetStore(t) == StoreStep(t, "get_store", "get_return")

\* lines 204 and 211: `return _cache_tz` reads the global again
ReturnStep(t, at) ==
    /\ pc[t] = at
    /\ ret' = [ret EXCEPT ![t] = [ret |-> _cache_tz]]
    /\ pc' = [pc EXCEPT ![t] = "idle"]
    /\ UNCHANGED <<World, _cache_tz, called, runs, finished, last, failed, tmp>>

GetReturn(t) == ReturnStep(t, "get_return")

\* ReloadEnter, were the cache cleared on entry
ReloadEnterClearing(t) ==
    /\ pc[t] = "idle"
    /\ pc' = [pc EXCEPT ![t] = "reload_call"]
    /\ ret' = [ret EXCEPT ![t] = NoOutcome]
    /\ _cache_tz' = None
    /\ UNCHANGED <<World, called, runs, finished, last, failed, tmp>>

\* reload_localzone is entered
ReloadEnter(t) ==
    /\ pc[t] = "idle"
    /\ pc' = [pc EXCEPT ![t] = "reload_call"]
    /\ ret' = [ret EXCEPT ![t] = NoOutcome]
    /\ UNCHANGED <<World, _cache_tz, called, runs, finished, last, failed, tmp>>

ReloadCall(t) == CallStep(t, "reload_call", "reload_store")

ReloadStore(t) == StoreStep(t, "reload_store", "reload_return")

ReloadReturn(t) == ReturnStep(t, "reload_return")

ThreadEnvValues == {None, Str(S_Japan), Str(S_Cuba)}

InitThreads ==
    /\ _cache_tz = None
    /\ called = NoCall
    /\ runs = 0
    /\ finished = {}
    /\ last = None
    /\ failed = FALSE
    /\ pc = [t \in Threads |-> "idle"]
    /\ tmp = [t \in Threads |-> None]
    /\ ret = [t \in Threads |-> NoOutcome]
    /\ environ \in {[TZ |-> v] : v \in ThreadEnvValues}
    /\ absfiles = {}
    /\ getprop = [kind |-> "fail"]
    /\ offsetState = "match"
    /\ fs = FsOf(Absent, Text(S_Cuba \o NL), Text(S_AsiaDili \o NL), Absent, Absent,
                 Absent, Absent)

NextThreads ==
    \/ \E t \in Threads :
          \/ GetTest(t)
          \/ GetCall(t)
          \/ GetStore(t)
          \/ GetReturn(t)
          \/ ReloadEnter(t)
          \/ ReloadCall(t)
          \/ ReloadStore(t)
          \/ ReloadReturn(t)
    \/ \E v \in ThreadEnvValues : SetTZ(v)

SpecThreads == InitThreads /\ [][NextThreads]_vars

(***************************************************************************)
(* Properties of the resolver, checked under Spec.                         *)
(***************************************************************************)
Resolved == called.op = "_get_localzone"

\* The value of TZ, "" when it is unset, and the same without a leading colon
TZValue == IF environ["TZ"] = None THEN <<>> ELSE environ["TZ"].val
TZName == IF StartsWith(TZValue, <<":">>) THEN Tail(TZValue) ELSE TZValue

\* The call got past the environment override and the platform probe, and the
\* scan of the files and of the symlink ended without raising: found_configs
\* reaches line 152.
Reconciling ==
    /\ Resolved
    /\ _try_tz_from_env = None
    /\ ~path_exists(P_getprop)
    /\ ScanAll(called.root).exc = None

Candidates == ScanAll(called.root).found

\* Synonym folding as the specification words it
Folded(name) ==
    LET a == Replace(name, <<"E","t","c","/">>, <<>>)
        b == Replace(a, <<"U","T","C">>, <<"G","M","T">>)
    IN  IF b = <<"G","M","T","0">> \/ b = <<"G","M","T","+","0">>
           \/ b = <<"G","M","T","-","0">>
        THEN <<"G","M","T">> ELSE b

Agree(found) ==
    \A i, j \in 1..Len(found) : Folded(found[i][2]) = Folded(found[j][2])

IsConflictError(out) ==
    /\ IsExc(out)
    /\ out.exc = "ZoneInfoNotFoundError"
    /\ out.why = "Multiple conflicting time zone configurations found"

IsZone(out, name) ==
    /\ ~IsExc(out)
    /\ out.ret.type = "ZoneInfo"
    /\ out.ret.made = "key"
    /\ out.ret.key = name

\* C1: when TZ is set, not empty, and (without a leading colon) neither an
\* existing absolute path nor a name of the zone database, _get_localzone raises
\* the ZoneInfoNotFoundError of the environment override, whatever the files,
\* the platform marker and the symlink are. Stated for the values of TZ that
\* are no absolute path at all (for an absolute path that does not exist,
\* ZoneInfo raises ValueError, not ZoneInfoNotFoundError).
C1_BadEnvRaises ==
    (/\ Resolved
     /\ TZValue # <<>>
     /\ ~IsAbs(TZName)
     /\ TZName \notin ZoneDB)
    => /\ IsExc(called.out)
       /\ called.out.exc = "ZoneInfoNotFoundError"
       /\ called.out.why = "tzlocal() does not support non-zoneinfo timezones"

\* C2: when TZ is a name Z of the zone database, _get_localzone returns the zone
\* Z, whatever the files, the platform marker and the symlink are.
C2_GoodEnvWins ==
    (Resolved /\ TZValue \in ZoneDB) => IsZone(called.out, TZValue)

\* C2's case: TZ names a zone while the platform marker exists and the files
\* hold conflicting names.
C2_Witness ==
    /\ Resolved
    /\ TZValue = S_AsiaDili
    /\ path_exists(P_getprop)
    /\ getprop = [kind |-> "fail"]
    /\ fs[P_etc_timezone] = Text(S_Cuba \o NL)
    /\ fs[P_var_db_zoneinfo] = Text(S_GMT \o NL)
    /\ IsZone(called.out, S_AsiaDili)

\* C3: when found_configs holds two or more candidates that do not all fold to
\* the same name, _get_localzone raises the conflict error, whose message has a
\* line "path: value" for every candidate.
C3_ConflictRaises ==
    (Reconciling /\ Len(Candidates) >= 2 /\ ~Agree(Candidates))
    => /\ IsConflictError(called.out)
       /\ \A i \in 1..Len(Candidates) :
             \E k \in 1..Len(called.out.lines) :
                called.out.lines[k] = Candidates[i][1] \o <<":", " ">> \o Candidates[i][2]

\* C3's case: etc/timezone and var/db/zoneinfo name different zones.
C3_Witness ==
    /\ Reconciling
    /\ fs[P_etc_timezone] = Text(S_AsiaDili \o NL)
    /\ fs[P_var_db_zoneinfo] = Text(S_GMT \o NL)
    /\ fs[P_etc_localtime] = Absent
    /\ IsConflictError(called.out)
    /\ Len(called.out.lines) = Len(Candidates)

\* The candidate met first in scan order: the four files, then the symlink
ScanOrder ==
    <<Join(called.root, P_etc_timezone), Join(called.root, P_var_db_zoneinfo),
      Join(called.root, P_sysconfig_clock), Join(called.root, P_confd_clock)>>
    \o (IF path_islink(P_etc_localtime) THEN <<path_realpath(P_etc_localtime)>> ELSE <<>>)

FirstCandidate ==
    LET first == CHOOSE i \in 1..Len(ScanOrder) :
                    /\ DictHas(Candidates, ScanOrder[i])
                    /\ \A j \in 1..(i - 1) : ~DictHas(Candidates, ScanOrder[j])
        item == CHOOSE k \in 1..Len(Candidates) : Candidates[k][1] = ScanOrder[first]
    IN  Candidates[item][2]

\* C4 as claimed: when two or more candidates all fold to the same name,
\* _get_localzone returns the zone named by the raw value of the first one.
C4_FirstRawAlwaysReturned ==
    (Reconciling /\ Len(Candidates) >= 2 /\ Agree(Candidates))
    => IsZone(called.out, FirstCandidate)

\* C4, amended: when two or more candidates all fold to the same name, the raw
\* value of the first one in scan order is the name looked up: its zone is
\* returned when the database holds it and the offset check at the default root
\* does not raise, and otherwise the lookup's or the check's exception is raised.
C4_FirstRawLookedUp ==
    (Reconciling /\ Len(Candidates) >= 2 /\ Agree(Candidates))
    => IF FirstCandidate \notin ZoneDB
       THEN /\ IsExc(called.out)
            /\ called.out.exc = "ZoneInfoNotFoundError"
            /\ called.out.why = "no such zone"
            /\ called.out.arg = FirstCandidate
       ELSE IF called.root = R_Slash /\ offsetState = "fail"
            THEN IsExc(called.out) /\ called.out.exc = "ValueError"
            ELSE IsZone(called.out, FirstCandidate)

\* C4's case: etc/timezone holds Etc/UTC, var/db/zoneinfo holds GMT, and the zone
\* Etc/UTC is returned.
C4_Witness ==
    /\ Reconciling
    /\ fs[P_etc_timezone] = Text(S_EtcUTC \o NL)
    /\ fs[P_var_db_zoneinfo] = Text(S_GMT \o NL)
    /\ Len(Candidates) >= 2
    /\ IsZone(called.out, S_EtcUTC)

\* C6: with TZ unset or empty, no platform marker, no candidate from a
\* configuration file, no etc/localtime and no usr/local/etc/localtime,
\* _get_localzone returns timezone.utc, warns, and raises nothing.
C6_NothingFoundGivesUTC ==
    (/\ Resolved
     /\ TZValue = <<>>
     /\ ~path_exists(P_getprop)
     /\ ScanFiles(called.root).found = <<>>
     /\ ~path_exists(P_etc_localtime)
     /\ ~path_exists(P_usr_localtime))
    => /\ ~IsExc(called.out)
       /\ called.out.ret = timezone_utc
       /\ Len(called.out.warnings) = 1

\* The candidates of the configuration files alone, and of the symlink alone
FileCandidates == ScanFiles(called.root).found
LinkCandidates == ScanSymlink(<<>>)

\* C7 as claimed: when a configuration file yields a candidate, the outcome is
\* the one the candidates of the files alone give: the symlink adds nothing.
C7_SymlinkIgnored ==
    (Reconciling /\ Len(FileCandidates) >= 1)
    => called.out = UseFoundConfigs(FileCandidates, called.root)

\* The file etc/localtime or usr/local/etc/localtime was loaded, or UTC assumed
IsFallback(out) ==
    /\ ~IsExc(out)
    /\ out.ret \in {ZoneInfo_from_file, timezone_utc}

\* C7, amended: the symlink is examined whether or not a configuration file
\* yielded a candidate, and a name it yields joins reconciliation after the
\* candidates of the files; the binary fallback and the UTC default are reached
\* only when neither gave a candidate. When a file yields a candidate, a returned zone is
\* always named by the first file candidate; a symlink that yields no name
\* changes nothing; a symlink whose name folds differently from a file candidate
\* makes the call raise the conflict error, with a line for the symlink.
C7_SymlinkJoinsReconciliation ==
    /\ (Reconciling /\ IsFallback(called.out))
       => FileCandidates = <<>> /\ LinkCandidates = <<>>
    /\ (Reconciling /\ Len(FileCandidates) >= 1)
       =>
       /\ ~IsExc(called.out) => IsZone(called.out, FileCandidates[1][2])
       /\ LinkCandidates = <<>>
             => called.out = UseFoundConfigs(FileCandidates, called.root)
       /\ (/\ LinkCandidates # <<>>
           /\ \E i \in 1..Len(FileCandidates) :
                 Folded(FileCandidates[i][2]) # Folded(LinkCandidates[1][2]))
             => /\ IsConflictError(called.out)
                /\ Len(called.out.lines) = Len(FileCandidates) + 1
                /\ called.out.lines[Len(called.out.lines)] =
                      LinkCandidates[1][1] \o <<":", " ">> \o LinkCandidates[1][2]

\* C7's case: one file candidate, and a symlink naming another zone.
C7_Witness ==
    /\ Reconciling
    /\ Len(FileCandidates) = 1
    /\ LinkCandidates # <<>>
    /\ ~IsExc(UseFoundConfigs(FileCandidates, called.root))
    /\ IsConflictError(called.out)

\* The suffixes of a path that start after a "/", longest first
RECURSIVE Suffixes(_)
Suffixes(path) ==
    IF Contains(path, "/")
    THEN <<From(path, Find(path, "/") + 1)>> \o Suffixes(From(path, Find(path, "/") + 1))
    ELSE <<>>

ZoneSuffixes(path) == SelectSeq(Suffixes(path), LAMBDA x : x \in ZoneDB)

\* C8: when etc/localtime is a symlink, the candidate recorded under its real
\* path is the longest suffix of that path that names a zone, and none is
\* recorded when no suffix names a zone.
C8_LongestSuffixRecorded ==
    (Reconciling /\ path_exists(P_etc_localtime) /\ path_islink(P_etc_localtime))
    => LET real == path_realpath(P_etc_localtime)
       IN  IF ZoneSuffixes(real) = <<>>
           THEN ~DictHas(Candidates, real)
           ELSE \E k \in 1..Len(Candidates) :
                   Candidates[k] = <<real, ZoneSuffixes(real)[1]>>

(***************************************************************************)
(* Properties of the cache, checked under SpecCache and SpecThreads.       *)
(***************************************************************************)
CachedCall == called.op \in {"get_localzone", "reload_localzone"}

\* C5: in a run of calls from one thread whose resolutions all succeed, a call
\* executes _get_localzone once if it is reload_localzone or a get_localzone
\* that finds the cache empty, and not at all otherwise; and every call returns
\* the object of the most recent execution.
C5_CachedOnce ==
    (CachedCall /\ ~failed)
    => /\ runs = called.runsBefore
                 + (IF called.op = "reload_localzone" \/ called.before = None
                    THEN 1 ELSE 0)
       /\ ~IsExc(called.out)
       /\ ~IsExc(last)
       /\ called.out.ret = last.ret

\* C5's case: get_localzone found the cache populated and returned the cached
\* object, although the environment has changed and _get_localzone() would now
\* return another zone.
C5_Witness ==
    /\ called.op = "get_localzone"
    /\ called.before # None
    /\ ~failed
    /\ runs >= 2
    /\ ~IsExc(_get_localzone(R_Slash))
    /\ _get_localzone(R_Slash).ret # called.out.ret

\* C10: a call whose resolution raises leaves _cache_tz as it found it; the
\* global changes only in a step that executes _get_localzone successfully, to
\* the object returned; get_localzone executes _get_localzone when it finds the
\* cache empty, and returns the cached object without executing it otherwise.
C10_FailureKeepsCache ==
    /\ []((CachedCall /\ IsExc(called.out)) => _cache_tz = called.before)
    /\ []((called.op = "get_localzone" /\ called.before = None)
            => runs = called.runsBefore + 1)
    /\ []((called.op = "get_localzone" /\ called.before # None)
            => runs = called.runsBefore /\ called.out = [ret |-> called.before])
    /\ [][_cache_tz' # _cache_tz
            => runs' = runs + 1 /\ ~IsExc(last') /\ _cache_tz' = last'.ret]_vars

\* C10's case: reload_localzone raised on a populated cache, which is kept.
C10_Witness ==
    /\ called.op = "reload_localzone"
    /\ IsExc(called.out)
    /\ called.before # None
    /\ _cache_tz = called.before

\* C9: with threads interleaved, _cache_tz is None or an object returned by an
\* execution of _get_localzone, every call that returns gives such an object,
\* and _cache_tz never goes back to None.
C9_BenignRace ==
    /\ [](_cache_tz = None \/ _cache_tz \in finished)
    /\ [](\A t \in Threads : "ret" \in DOMAIN ret[t] => ret[t].ret \in finished)
    /\ [][_cache_tz # None => _cache_tz' # None]_vars

\* C9's case: two threads have both executed _get_localzone before either has
\* stored its result.
C9_Witness ==
    /\ \E t, u \in Threads : t # u /\ pc[t] = "get_store" /\ pc[u] = "get_store"
    /\ _cache_tz = None
    /\ runs >= 2

====
